---- MODULE Spec2Model ----
(***************************************************************************)
(* doom-remote-input: the serial bridge (forwarder.c) and the key-event    *)
(* encoder client.  The bridge opens and configures a serial line, accepts *)
(* one TCP connection and runs two copy loops (socket -> serial, serial -> *)
(* standard output).  The encoder reads input_event records and sends a    *)
(* 2-byte record per key press/release.                                    *)
(***************************************************************************)
EXTENDS Integers, Sequences, FiniteSets, TLC

(***************************************************************************)
(* Bounds of the model.                                                    *)
(***************************************************************************)
\* records the event device holds
MaxEvents == 2
\* reads of the event device past its last record that are explored
MaxEof == 1
\* bytes the serial device holds for Direction B
MaxSerial == 2
\* further clients that connect while the bridge runs
MaxClients == 1

(***************************************************************************)
(* Program constants.                                                      *)
(***************************************************************************)
RX_BUFFER_SIZE == 2
TX_BUFFER_SIZE == 256
BAUD_RATE == 115200
PRESS_IDENTIFIER == 254
RELEASE_IDENTIFIER == 255
EV_KEY == 1
EV_SYN == 0
\* the largest key code that fits the 1-byte wire field
MAX_CODE == 255
VTIME_VALUE == 10
VMIN_VALUE == 1
\* exit status of a process that has not terminated
Running == -1
\* shell-visible status of a process killed by SIGPIPE (128 + 13)
SIGPIPE_STATUS == 141

(***************************************************************************)
(* Line Configurator.                                                      *)
(***************************************************************************)
\* the 30 rates of the switch in baudrate_to_speed_t
SupportedBauds ==
    { 50, 75, 110, 134, 150, 200, 300, 600, 1200, 1800, 2400, 4800, 9600,
      19200, 38400, 57600, 115200, 230400, 460800, 500000, 576000, 921600,
      1000000, 1152000, 1500000, 2000000, 2500000, 3000000, 3500000, 4000000 }

\* speed_t values are kept symbolic: B<rate> for the termios constants and
\* SPEED_INVALID for (speed_t)-1, which no 32-bit signed integer holds
SPEED_INVALID == "(speed_t)-1"

SpeedName ==
    [ b \in SupportedBauds |->
        CASE b = 50 -> "B50" [] b = 75 -> "B75" [] b = 110 -> "B110"
          [] b = 134 -> "B134" [] b = 150 -> "B150" [] b = 200 -> "B200"
          [] b = 300 -> "B300" [] b = 600 -> "B600" [] b = 1200 -> "B1200"
          [] b = 1800 -> "B1800" [] b = 2400 -> "B2400" [] b = 4800 -> "B4800"
          [] b = 9600 -> "B9600" [] b = 19200 -> "B19200"
          [] b = 38400 -> "B38400" [] b = 57600 -> "B57600"
          [] b = 115200 -> "B115200" [] b = 230400 -> "B230400"
          [] b = 460800 -> "B460800" [] b = 500000 -> "B500000"
          [] b = 576000 -> "B576000" [] b = 921600 -> "B921600"
          [] b = 1000000 -> "B1000000" [] b = 1152000 -> "B1152000"
          [] b = 1500000 -> "B1500000" [] b = 2000000 -> "B2000000"
          [] b = 2500000 -> "B2500000" [] b = 3000000 -> "B3000000"
          [] b = 3500000 -> "B3500000" [] b = 4000000 -> "B4000000" ]

ValidSpeeds == { SpeedName[b] : b \in SupportedBauds } \cup { "B0" }

\* the switch: a supported rate gives its constant; default prints the
\* diagnostic and gives (speed_t)-1
baudrate_to_speed_t(baudrate) ==
    IF baudrate \in SupportedBauds
    THEN [ speed |-> SpeedName[baudrate], diag |-> << >> ]
    ELSE [ speed |-> SPEED_INVALID, diag |-> << "invalid baud rate" >> ]

\* cfsetospeed / cfsetispeed on the termios copy: a value that is no Bxxx
\* constant is refused with EINVAL and the field is left alone; the code
\* ignores the return value
cfsetspeed(t, field, b) ==
    IF b \in ValidSpeeds THEN [ t EXCEPT ![field] = b ] ELSE t

\* the flag edits without line 113, which turns hardware flow control off
RawSettingsKeepsFlowControl(t) ==
    [ t EXCEPT
        !.cflag = ((@ \ { "PARENB" }) \ { "CSTOPB" }) \cup { "CREAD", "CLOCAL" },
        !.csize = 8,
        !.lflag = @ \ { "ICANON", "ECHO", "ECHOE", "ECHONL", "ISIG" },
        !.iflag = (@ \ { "IXON", "IXOFF", "IXANY" })
                    \ { "IGNBRK", "BRKINT", "PARMRK", "ISTRIP", "INLCR",
                        "IGNCR", "ICRNL" },
        !.oflag = (@ \ { "OPOST" }) \ { "ONLCR" },
        !.vtime = VTIME_VALUE,
        !.vmin = VMIN_VALUE ]

\* the flag edits with VMIN = 0 at line 130: a read with a timeout only
RawSettingsVminZero(t) ==
    [ t EXCEPT
        !.cflag = (((@ \ { "PARENB" }) \ { "CSTOPB" }) \ { "CRTSCTS" })
                    \cup { "CREAD", "CLOCAL" },
        !.csize = 8,
        !.lflag = @ \ { "ICANON", "ECHO", "ECHOE", "ECHONL", "ISIG" },
        !.iflag = (@ \ { "IXON", "IXOFF", "IXANY" })
                    \ { "IGNBRK", "BRKINT", "PARMRK", "ISTRIP", "INLCR",
                        "IGNCR", "ICRNL" },
        !.oflag = (@ \ { "OPOST" }) \ { "ONLCR" },
        !.vtime = VTIME_VALUE,
        !.vmin = 0 ]

\* lines 110-130: the flag edits on the termios copy
RawSettings(t) ==
    [ t EXCEPT
        !.cflag = (((@ \ { "PARENB" }) \ { "CSTOPB" }) \ { "CRTSCTS" })
                    \cup { "CREAD", "CLOCAL" },
        !.csize = 8,
        !.lflag = @ \ { "ICANON", "ECHO", "ECHOE", "ECHONL", "ISIG" },
        !.iflag = (@ \ { "IXON", "IXOFF", "IXANY" })
                    \ { "IGNBRK", "BRKINT", "PARMRK", "ISTRIP", "INLCR",
                        "IGNCR", "ICRNL" },
        !.oflag = (@ \ { "OPOST" }) \ { "ONLCR" },
        !.vtime = VTIME_VALUE,
        !.vmin = VMIN_VALUE ]

\* configure_serial_port(fd, baud_rate) on a line whose attributes are
\* `line`; getOk / setOk are the outcomes of tcgetattr / tcsetattr.
\* Gives the return value, the line's attributes afterwards and the
\* diagnostics printed to stderr.
configure_serial_port(line, baud_rate, getOk, setOk) ==
    IF ~getOk
    THEN [ ret |-> -1, line |-> line, diag |-> << "Error from tcgetattr" >> ]
    ELSE LET b == baudrate_to_speed_t(baud_rate)
             t1 == cfsetspeed(line, "ospeed", b.speed)
             t2 == cfsetspeed(t1, "ispeed", b.speed)
             t3 == RawSettings(t2)
         IN  IF ~setOk
             THEN [ ret |-> -1, line |-> line,
                    diag |-> b.diag \o << "Error from tcsetattr" >> ]
             ELSE [ ret |-> 0, line |-> t3, diag |-> b.diag ]

\* line states a serial device can be in before the bridge touches it
CookedLine ==
    [ ispeed |-> "B9600", ospeed |-> "B9600", csize |-> 8,
      cflag |-> { "CREAD" },
      lflag |-> { "ICANON", "ECHO", "ECHOE", "ISIG" },
      iflag |-> { "ICRNL", "IXON" },
      oflag |-> { "OPOST", "ONLCR" },
      vtime |-> 0, vmin |-> 1 ]

OddLine ==
    [ ispeed |-> "B300", ospeed |-> "B1200", csize |-> 7,
      cflag |-> { "PARENB", "CSTOPB", "CRTSCTS" },
      lflag |-> { "ECHONL" },
      iflag |-> { "IXOFF", "IXANY", "ISTRIP", "IGNCR" },
      oflag |-> { },
      vtime |-> 5, vmin |-> 0 ]

RawLine ==
    [ ispeed |-> "B115200", ospeed |-> "B115200", csize |-> 8,
      cflag |-> { "CREAD", "CLOCAL" },
      lflag |-> { }, iflag |-> { }, oflag |-> { },
      vtime |-> 10, vmin |-> 1 ]

PriorLines == { CookedLine, OddLine, RawLine }

\* integers atoi can hand to configure_serial_port that the switch lacks
UnsupportedBauds == { 0 - 1, 0, 1, 49, 12345, 115201, 4000001 }

\* the -b arguments the forwarding model is explored with
BaudArgs == { BAUD_RATE, 12345 }

(***************************************************************************)
(* Event Encoder: input_event records and their classification.            *)
(***************************************************************************)
KeyCodes == { 30, MAX_CODE, MAX_CODE + 1 }
KeyValues == { 0, 1, 2, 3 }

\* the records the event device can deliver: one non-key record and every
\* key record over KeyCodes x KeyValues
Events ==
    { [ type |-> EV_SYN, code |-> 0, value |-> 0 ] }
      \cup { [ type |-> EV_KEY, code |-> c, value |-> v ] :
               c \in KeyCodes, v \in KeyValues }

\* lines 119-139: what the if / else-if chain decides for a record
Classify(e) ==
    IF e.type # EV_KEY THEN "notkey"
    ELSE IF e.value = 1 THEN "press"
    ELSE IF e.value = 0 THEN "release"
    ELSE IF e.value = 2 THEN "repeat"
    ELSE "unknown"

\* the bound of line 142 off by one
CodeTooLargeOffByOne(code) == code > MAX_CODE + 1

\* line 142: the key code does not fit the wire field
CodeTooLarge(code) == code > MAX_CODE

\* the two identifiers of lines 127 and 132 exchanged
MessageSwapped(e) ==
    << IF Classify(e) = "press" THEN RELEASE_IDENTIFIER ELSE PRESS_IDENTIFIER,
       e.code % 256 >>

\* lines 127, 132, 146: the 2-byte buffer; (char)code keeps the low 8 bits
Message(e) ==
    << IF Classify(e) = "press" THEN PRESS_IDENTIFIER ELSE RELEASE_IDENTIFIER,
       e.code % 256 >>

\* whether the iteration reaches send() for this record
Sends(e) == Classify(e) \in { "press", "release" } /\ ~CodeTooLarge(e.code)

\* what the iteration prints to the encoder's standard output
EncPrints(e, v) ==
    CASE Classify(e) = "press" ->
           (IF v THEN << "Key Down" >> ELSE << >>)
             \o (IF CodeTooLarge(e.code) THEN << "too large" >> ELSE << >>)
      [] Classify(e) = "release" ->
           (IF v THEN << "Key Up" >> ELSE << >>)
             \o (IF CodeTooLarge(e.code) THEN << "too large" >> ELSE << >>)
      [] Classify(e) = "unknown" -> << "Unknown event" >>
      [] OTHER -> << >>

(***************************************************************************)
(* Forwarding Engine helpers.                                              *)
(***************************************************************************)
Min(a, b) == IF a < b THEN a ELSE b
Max(a, b) == IF a > b THEN a ELSE b

\* bytes the serial device can emit
SerialBytes == { 65, 10 }

\* a write that starts one byte into the buffer
TransferredOffByOne(buf, w) == SubSeq(buf, 2, Max(w, 0))

\* write(fd, buffer, bytes_read) returning w: the first w bytes of the
\* buffer reach the sink (none when w is -1)
Transferred(buf, w) == SubSeq(buf, 1, Max(w, 0))

\* a test that takes only a failed write, not a short one, as fatal
WriteFailedOnlyOnError(w, bytes_read) == w < 0

\* lines 149, 170: the test that makes a write fatal
WriteFailed(w, bytes_read) == w # bytes_read

\* lines 145, 163: the loop condition on the read's result
LoopContinues(bytes_read) == bytes_read > 0

\* the disabled branch of lines 165-168 compiled in instead
BSinkTcp == "tcp"

\* lines 164-174: the sink the preprocessor leaves for Direction B
BSink == "stdout"

\* items of the bridge's standard output: a byte written by Direction B,
\* or a line printed with printf
DataItem(b) == << "data", b >>
LogItem(name) == << "log", name >>
DataItems(bytes) == [ i \in 1..Len(bytes) |-> DataItem(bytes[i]) ]

\* the log line printed whatever the flag is
VerboseLogAlways(v) == << LogItem("chunk") >>

\* lines 146-147: if (verbose) printf("%x %x\n", ...), one line per chunk
VerboseLog(v) == IF v THEN << LogItem("chunk") >> ELSE << >>

IsData(item) == item[1] = "data"
RECURSIVE DataOf(_)
DataOf(items) ==
    IF items = << >> THEN << >>
    ELSE IF IsData(Head(items)) THEN << Head(items)[2] >> \o DataOf(Tail(items))
    ELSE DataOf(Tail(items))

IsPrefix(s, t) == Len(s) <= Len(t) /\ SubSeq(t, 1, Len(s)) = s

\* sequences over S of length lo..hi
SeqsOf(S, lo, hi) == UNION { [ 1..n -> S ] : n \in lo..hi }

(***************************************************************************)
(* State.                                                                  *)
(***************************************************************************)
VARIABLES
    \* bridge (forwarder.c)
    baud,        \* main's baud, after option parsing
    verbose,     \* the bridge's verbose flag
    pcMain,      \* where main is
    bridgeExit,  \* the bridge's exit status, Running until it terminates
    tty0,        \* the serial line's attributes before the bridge ran
    tty,         \* the serial line's attributes
    cfgRet,      \* << r >> once configure_serial_port has returned r
    pcA, bufA, endA,   \* tcp_to_serial_thread: position, chunk, how it ended
    pcB, bufB, endB,   \* serial_to_tcp_thread: position, chunk, how it ended
    stdio,       \* printf output still in the stdio buffer of stdout
    stdout,      \* what has reached the bridge's standard output
    stderr,      \* the bridge's diagnostics
    serialOut,   \* bytes written to the serial device
    serialDev,   \* bytes the serial device has still to deliver
    serialRead,  \* bytes Direction B has read from the serial device
    tcpRead,     \* bytes Direction A has read from the connection
    tcpOut,      \* bytes the bridge has sent to the TCP peer
    \* the connection
    conn,        \* "none", "pending" (connected, in the backlog), "accepted"
    tcpIn,       \* bytes sent by the client and not yet read by the bridge
    peerClosed,  \* the client has closed its socket
    \* encoder client
    verboseE,    \* the encoder's verbose flag
    pcE,         \* "start", "loop", "done"
    encExit,     \* the encoder's exit status, Running until it terminates
    evDev,       \* records the event device has still to deliver
    evEof,       \* past its last record the event device signals end of
                 \* stream (a file or FIFO) rather than block (an evdev node)
    evRead,      \* records completely read from the event device
    tcpSent,     \* bytes send() has put on the connection
    encOut,      \* the encoder's standard output
    encErr,      \* the encoder's diagnostics
    eofs,        \* reads made past the last record of the event device
    \* the rest of the environment
    acceptCalls, \* calls of accept the bridge has made
    waiting,     \* further clients connected and waiting in the backlog
    idleAt       \* << n >> once the serial line has stayed silent for
                 \* longer than its read timer, n bytes having been read

bridgeVars ==
    << baud, verbose, pcMain, bridgeExit, tty0, tty, cfgRet, pcA, bufA, endA,
       pcB, bufB, endB, stdio, stdout, stderr, serialOut, serialDev,
       serialRead, tcpRead, tcpOut >>
connVars == << conn, tcpIn, peerClosed >>
encVars ==
    << verboseE, pcE, encExit, evDev, evEof, evRead, tcpSent, encOut,
       encErr, eofs >>
envVars == << acceptCalls, waiting, idleAt >>
vars == << bridgeVars, connVars, encVars, envVars >>

mainVars == << baud, verbose, tty0 >>
threadAVars == << pcA, bufA, endA, serialOut, tcpRead >>
threadBVars == << pcB, bufB, endB, serialDev, serialRead, tcpOut >>

InitCommon ==
    /\ bridgeExit = Running
    /\ tty = tty0
    /\ cfgRet = << >>
    /\ pcA = "idle" /\ bufA = << >> /\ endA = "none"
    /\ pcB = "idle" /\ bufB = << >> /\ endB = "none"
    /\ stdio = << >> /\ stdout = << >> /\ stderr = << >>
    /\ serialOut = << >> /\ serialRead = << >> /\ tcpRead = << >>
    /\ tcpOut = << >>
    /\ conn = "none" /\ tcpIn = << >> /\ peerClosed = FALSE
    /\ pcE = "start" /\ encExit = Running
    /\ evRead = << >>
    /\ tcpSent = << >> /\ encOut = << >> /\ encErr = << >>
    /\ eofs = 0
    /\ acceptCalls = 0 /\ waiting = 0 /\ idleAt = << >>

\* what the event device and the serial device hold
EventStreams == SeqsOf(Events, 0, MaxEvents)
SerialStreams == SeqsOf(SerialBytes, 0, MaxSerial)

\* key press/release records with codes that fit the wire field, among
\* them the end-to-end scenario of the specification: key 30 down, then up
Press30 == [ type |-> EV_KEY, code |-> 30, value |-> 1 ]
Release30 == [ type |-> EV_KEY, code |-> 30, value |-> 0 ]
Release255 == [ type |-> EV_KEY, code |-> MAX_CODE, value |-> 0 ]
RelayStreams == SeqsOf({ Press30, Release30, Release255 }, 0, MaxEvents)

\* both programs about to start, after option parsing: every relay stream
\* against a silent serial device; every serial stream against a client
\* that has at most one key press to send; and, for that client and a
\* silent serial device, every -b argument and kind of event device
Init ==
    /\ baud \in BaudArgs
    /\ verbose \in BOOLEAN
    /\ verboseE = FALSE
    /\ tty0 = CookedLine
    /\ pcMain = "open"
    /\ evDev \in RelayStreams
    /\ evEof \in BOOLEAN
    /\ serialDev \in SerialStreams
    /\ \/ serialDev = << >> /\ baud = BAUD_RATE /\ ~evEof
       \/ evDev \in { << >>, << Press30 >> } /\ baud = BAUD_RATE /\ ~evEof
       \/ evDev \in { << >>, << Press30 >> } /\ serialDev = << >>
    /\ InitCommon

(***************************************************************************)
(* Bridge: main.                                                           *)
(***************************************************************************)
BridgeRunning == bridgeExit = Running

\* the process terminates (return from main, or exit()): stdio is flushed
Terminate(status, diag, printed) ==
    /\ bridgeExit' = status
    /\ stderr' = stderr \o diag
    /\ stdout' = stdout \o stdio \o printed
    /\ stdio' = << >>

\* lines 228-232
MainOpen ==
    /\ BridgeRunning /\ pcMain = "open"
    /\ \E ok \in BOOLEAN :
         IF ok
         THEN /\ pcMain' = "configure"
              /\ UNCHANGED << bridgeExit, stderr, stdout, stdio >>
         ELSE /\ Terminate(1, << "Error opening serial port" >>, << >>)
              /\ UNCHANGED pcMain
    /\ UNCHANGED << mainVars, tty, cfgRet, threadAVars, threadBVars,
                    connVars, encVars, envVars >>

\* lines 234-236, with configure_serial_port
MainConfigure ==
    /\ BridgeRunning /\ pcMain = "configure"
    /\ \E getOk \in BOOLEAN, setOk \in BOOLEAN :
         LET r == configure_serial_port(tty, baud, getOk, setOk)
         IN  /\ tty' = r.line
             /\ cfgRet' = << r.ret >>
             /\ IF r.ret < 0
                THEN /\ Terminate(1, r.diag, << >>)
                     /\ UNCHANGED pcMain
                ELSE /\ pcMain' = "listen"
                     /\ stderr' = stderr \o r.diag
                     /\ UNCHANGED << bridgeExit, stdout, stdio >>
    /\ UNCHANGED << mainVars, threadAVars, threadBVars, connVars, encVars,
                    envVars >>

\* lines 238-263: socket, bind, listen and the banner
MainListen ==
    /\ BridgeRunning /\ pcMain = "listen"
    /\ \E res \in { "ok", "Socket creation failed", "Bind failed",
                    "Listen failed" } :
         IF res = "ok"
         THEN /\ pcMain' = "accept"
              /\ stdio' = Append(stdio, LogItem("listening"))
              /\ UNCHANGED << bridgeExit, stderr, stdout >>
         ELSE /\ Terminate(1, << res >>, << >>)
              /\ UNCHANGED pcMain
    /\ UNCHANGED << mainVars, tty, cfgRet, threadAVars, threadBVars,
                    connVars, encVars, envVars >>

\* lines 265-275: accept blocks until a client is in the backlog
MainAccept ==
    /\ BridgeRunning /\ pcMain = "accept"
    /\ acceptCalls' = acceptCalls + 1
    /\ \/ /\ conn = "pending"
          /\ conn' = "accepted"
          /\ pcMain' = "spawn"
          /\ stdio' = Append(stdio, LogItem("accepted"))
          /\ UNCHANGED << bridgeExit, stderr, stdout, waiting >>
       \/ /\ conn = "accepted" /\ waiting > 0
          /\ waiting' = waiting - 1
          /\ pcMain' = "spawn"
          /\ stdio' = Append(stdio, LogItem("accepted"))
          /\ UNCHANGED << bridgeExit, stderr, stdout, conn >>
       \/ /\ Terminate(1, << "Accept failed" >>, << >>)
          /\ UNCHANGED << pcMain, conn, waiting >>
    /\ UNCHANGED << mainVars, tty, cfgRet, threadAVars, threadBVars,
                    tcpIn, peerClosed, encVars, idleAt >>

\* lines 277-279: both threads are created
MainSpawn ==
    /\ BridgeRunning /\ pcMain = "spawn"
    /\ pcMain' = "join_tcp"
    /\ pcA' = "recv"
    /\ pcB' = "read"
    /\ UNCHANGED << mainVars, bridgeExit, tty, cfgRet, bufA, endA, bufB, endB,
                    stdio, stdout, stderr, serialOut, serialDev, serialRead,
                    tcpRead, tcpOut, connVars, encVars, envVars >>

\* main going on to the second join and the closes without waiting for
\* Direction A
MainJoinTcpNoWait ==
    /\ BridgeRunning /\ pcMain = "join_tcp"
    /\ pcMain' = "join_serial"
    /\ UNCHANGED << mainVars, bridgeExit, tty, cfgRet, threadAVars,
                    threadBVars, stdio, stdout, stderr, connVars, encVars,
                    envVars >>

\* the first join followed by a cancellation of Direction B
MainJoinTcpCancelsB ==
    /\ BridgeRunning /\ pcMain = "join_tcp"
    /\ pcA = "done"
    /\ pcMain' = "join_serial"
    /\ pcB' = "done"
    /\ UNCHANGED << mainVars, bridgeExit, tty, cfgRet, threadAVars, bufB,
                    endB, serialDev, serialRead, tcpOut, stdio, stdout,
                    stderr, connVars, encVars, envVars >>

\* line 281
MainJoinTcp ==
    /\ BridgeRunning /\ pcMain = "join_tcp"
    /\ pcA = "done"
    /\ pcMain' = "join_serial"
    /\ UNCHANGED << mainVars, bridgeExit, tty, cfgRet, threadAVars,
                    threadBVars, stdio, stdout, stderr, connVars, encVars,
                    envVars >>

\* the session's end leading back to accept, as in a server that loops
MainJoinSerialAcceptsAgain ==
    /\ BridgeRunning /\ pcMain = "join_serial"
    /\ pcB = "done"
    /\ pcMain' = "accept"
    /\ UNCHANGED << mainVars, bridgeExit, tty, cfgRet, threadAVars,
                    threadBVars, stdio, stdout, stderr, connVars, encVars,
                    envVars >>

\* lines 282-289: the second join, the closes, the last printf, return 0
MainJoinSerial ==
    /\ BridgeRunning /\ pcMain = "join_serial"
    /\ pcB = "done"
    /\ pcMain' = "closed"
    /\ Terminate(0, << >>, << LogItem("closed") >>)
    /\ UNCHANGED << mainVars, tty, cfgRet, threadAVars, threadBVars,
                    connVars, encVars, envVars >>

\* stdout is line buffered on a terminal: a printed line reaches the
\* descriptor before the process ends
FlushStdio ==
    /\ BridgeRunning
    /\ stdio # << >>
    /\ stdout' = stdout \o stdio
    /\ stdio' = << >>
    /\ UNCHANGED << mainVars, pcMain, bridgeExit, tty, cfgRet, threadAVars,
                    threadBVars, stderr, connVars, encVars, envVars >>

(***************************************************************************)
(* Bridge: Direction A, tcp_to_serial_thread.                              *)
(***************************************************************************)
\* line 145: recv into the 2-byte buffer.  It gives 1..2 of the bytes in
\* flight, 0 once the peer has closed and nothing is in flight, or -1.
A_Recv ==
    /\ BridgeRunning /\ pcA = "recv"
    /\ \E bytes_read \in (0 - 1)..Min(RX_BUFFER_SIZE, Len(tcpIn)) :
         /\ bytes_read = 0 => peerClosed /\ tcpIn = << >>
         /\ IF LoopContinues(bytes_read)
            THEN /\ bufA' = SubSeq(tcpIn, 1, bytes_read)
                 /\ tcpIn' = SubSeq(tcpIn, bytes_read + 1, Len(tcpIn))
                 /\ tcpRead' = tcpRead \o SubSeq(tcpIn, 1, bytes_read)
                 /\ pcA' = "write"
                 /\ UNCHANGED endA
            ELSE /\ pcA' = "done"
                 /\ endA' = IF bytes_read = 0 THEN "eos" ELSE "err"
                 /\ UNCHANGED << bufA, tcpIn, tcpRead >>
    /\ UNCHANGED << mainVars, pcMain, bridgeExit, tty, cfgRet, serialOut,
                    threadBVars, stdio, stdout, stderr, conn, peerClosed,
                    encVars, envVars >>

\* the chunk handling of Direction A put under a lock that Direction B
\* holds around its read
A_WriteWaitsForB ==
    /\ BridgeRunning /\ pcA = "write"
    /\ pcB # "read"
    /\ \E w \in (0 - 1)..Len(bufA) :
         LET printed == VerboseLog(verbose)
         IN  /\ serialOut' = serialOut \o Transferred(bufA, w)
             /\ IF WriteFailed(w, Len(bufA))
                THEN /\ pcA' = "exit"
                     /\ endA' = "write"
                     /\ Terminate(1, << "write" >>, printed)
                ELSE /\ pcA' = "recv"
                     /\ stdio' = stdio \o printed
                     /\ UNCHANGED << endA, bridgeExit, stderr, stdout >>
    /\ UNCHANGED << mainVars, pcMain, tty, cfgRet, bufA, tcpRead,
                    threadBVars, connVars, encVars, envVars >>

\* lines 146-152: the verbose printf, the write to the serial device and
\* the check of its result; perror and exit(1) when it is not bytes_read
A_Write ==
    /\ BridgeRunning /\ pcA = "write"
    /\ \E w \in (0 - 1)..Len(bufA) :
         LET printed == VerboseLog(verbose)
         IN  /\ serialOut' = serialOut \o Transferred(bufA, w)
             /\ IF WriteFailed(w, Len(bufA))
                THEN /\ pcA' = "exit"
                     /\ endA' = "write"
                     /\ Terminate(1, << "write" >>, printed)
                ELSE /\ pcA' = "recv"
                     /\ stdio' = stdio \o printed
                     /\ UNCHANGED << endA, bridgeExit, stderr, stdout >>
    /\ UNCHANGED << mainVars, pcMain, tty, cfgRet, bufA, tcpRead,
                    threadBVars, connVars, encVars, envVars >>

(***************************************************************************)
(* Bridge: Direction B, serial_to_tcp_thread.                              *)
(***************************************************************************)
\* line 163: read from the serial device into the 256-byte buffer.  The
\* device delivers its next 1.. bytes, 0 (end of stream) or -1.
B_Read ==
    /\ BridgeRunning /\ pcB = "read"
    /\ \E bytes_read \in (0 - 1)..Min(TX_BUFFER_SIZE, Len(serialDev)) :
         IF LoopContinues(bytes_read)
         THEN /\ bufB' = SubSeq(serialDev, 1, bytes_read)
              /\ serialDev' = SubSeq(serialDev, bytes_read + 1, Len(serialDev))
              /\ serialRead' = serialRead \o SubSeq(serialDev, 1, bytes_read)
              /\ pcB' = "write"
              /\ UNCHANGED endB
         ELSE /\ pcB' = "done"
              /\ endB' = IF bytes_read = 0 THEN "eos" ELSE "err"
              /\ UNCHANGED << bufB, serialDev, serialRead >>
    /\ UNCHANGED << mainVars, pcMain, bridgeExit, tty, cfgRet, threadAVars,
                    tcpOut, stdio, stdout, stderr, connVars, encVars,
                    envVars >>

\* lines 164-174: the write to the sink and the check of its result
B_Write ==
    /\ BridgeRunning /\ pcB = "write"
    /\ \E w \in (0 - 1)..Len(bufB) :
         LET toStdout == IF BSink = "stdout"
                         THEN DataItems(Transferred(bufB, w)) ELSE << >>
             toTcp == IF BSink = "stdout"
                      THEN << >> ELSE Transferred(bufB, w)
         IN  /\ tcpOut' = tcpOut \o toTcp
             /\ IF WriteFailed(w, Len(bufB))
                THEN /\ pcB' = "exit"
                     /\ endB' = "write"
                     /\ bridgeExit' = 1
                     /\ stderr' = Append(stderr, "write")
                     /\ stdout' = stdout \o toStdout \o stdio
                     /\ stdio' = << >>
                ELSE /\ pcB' = "read"
                     /\ stdout' = stdout \o toStdout
                     /\ UNCHANGED << endB, bridgeExit, stderr, stdio >>
    /\ UNCHANGED << mainVars, pcMain, tty, cfgRet, threadAVars, bufB,
                    serialDev, serialRead, connVars, encVars, envVars >>

(***************************************************************************)
(* Encoder client: main.                                                   *)
(***************************************************************************)
\* the bridge has called listen() and still holds the listening socket
Listening ==
    BridgeRunning /\ pcMain \in { "accept", "spawn", "join_tcp", "join_serial" }

\* main's cleanup and return: the socket is closed, the status is the low
\* 8 bits of the returned int
EncReturn(ret, diag) ==
    /\ pcE' = "done"
    /\ encExit' = ret % 256
    /\ encErr' = encErr \o diag
    /\ peerClosed' = TRUE

\* lines 69-107: open the event device, resolve, create the socket, connect
EncStart ==
    /\ pcE = "start"
    /\ \E res \in { "ok", "Failed to open input device", "getaddrinfo error",
                    "Socket creation error", "Connection Failed" } :
         IF res = "ok"
         THEN /\ Listening /\ conn = "none"
              /\ conn' = "pending"
              /\ pcE' = "loop"
              /\ UNCHANGED << encExit, encErr, peerClosed >>
         ELSE /\ EncReturn(IF res = "getaddrinfo error" THEN 0 - 1 ELSE 1,
                           << res >>)
              /\ UNCHANGED conn
    /\ UNCHANGED << bridgeVars, tcpIn, verboseE, evDev, evEof, evRead,
                    tcpSent, encOut, eofs, envVars >>

\* send(sock, buffer, 2, 0) returning n puts the first n bytes on the
\* connection (none when n is -1); the bridge's end may be gone already
Sent(buffer, n) == SubSeq(buffer, 1, Max(n, 0))

\* line 148: the test that makes a send fatal
SendFailed(n) == n # 2

\* line 113: the test on read's result; only a negative result leaves the
\* loop
ReadFailed(rd) == rd = "err"

\* the value of the loop's return statement after a break (line 158)
BreakStatus == 0

\* lines 109-153: one iteration of while (1), e being the iteration's
\* struct input_event ev.  rd is read's outcome: the device's next record
\* ("full"); past the last record of a device that signals end of stream,
\* no byte or fewer bytes than a record ("short": ev is then not fully
\* written and its content is indeterminate); or an error ("err").  n is send's result; sigpipe says that the send on a
\* connection the bridge has dropped raised SIGPIPE, which ends the process.
EncIter ==
    /\ pcE = "loop"
    /\ \E rd \in { "full", "short", "err" } :
         IF ReadFailed(rd)
            THEN /\ EncReturn(BreakStatus, << "Error reading input event" >>)
                 /\ UNCHANGED << evDev, evRead, tcpSent, tcpIn, encOut, eofs >>
            ELSE \E e \in Events :
                      /\ IF rd = "full"
                         THEN /\ evDev # << >> /\ e = Head(evDev)
                              /\ evDev' = Tail(evDev)
                              /\ evRead' = Append(evRead, e)
                              /\ UNCHANGED eofs
                         ELSE /\ evDev = << >> /\ evEof /\ eofs < MaxEof
                              /\ eofs' = eofs + 1
                              /\ UNCHANGED << evDev, evRead >>
                      /\ encOut' = encOut \o EncPrints(e, verboseE)
                      /\ IF ~Sends(e)
                         THEN UNCHANGED << pcE, encExit, encErr, peerClosed,
                                           tcpSent, tcpIn >>
                         ELSE \E n \in { 2, 1, 0 - 1 }, sigpipe \in BOOLEAN :
                                IF sigpipe
                                THEN /\ ~BridgeRunning /\ n = 0 - 1
                                     /\ pcE' = "done"
                                     /\ encExit' = SIGPIPE_STATUS
                                     /\ peerClosed' = TRUE
                                     /\ UNCHANGED << encErr, tcpSent, tcpIn >>
                                ELSE /\ tcpSent' = tcpSent \o Sent(Message(e), n)
                                     /\ tcpIn' = IF BridgeRunning
                                                 THEN tcpIn \o Sent(Message(e), n)
                                                 ELSE tcpIn
                                     /\ IF SendFailed(n)
                                        THEN EncReturn(BreakStatus,
                                                 << "Failed to send data" >>)
                                        ELSE UNCHANGED << pcE, encExit, encErr,
                                                          peerClosed >>
    /\ UNCHANGED << bridgeVars, conn, verboseE, evEof, envVars >>

(***************************************************************************)
(* The rest of the environment: clients other than the encoder, and a      *)
(* serial line that stays silent.                                          *)
(***************************************************************************)

\* line 256, listen(server_fd, 1): a client that connects after the encoder
\* completes its handshake and waits in the backlog
OtherClientConnect ==
    /\ Listening
    /\ conn # "none"
    /\ waiting < MaxClients
    /\ waiting' = waiting + 1
    /\ UNCHANGED << bridgeVars, connVars, encVars, acceptCalls, idleAt >>

\* lines 129-130 and 163: what read() does on a line with the attributes t
\* when no byte arrives.  With VMIN = 0 the call returns 0 (at once, or when
\* VTIME tenths of a second have passed); with VMIN > 0 the timer is an
\* inter-byte timer, started by the first byte, and the call keeps blocking.
IdleReadReturnsZero(t) == t.vmin = 0

\* the serial line stays silent for longer than VTIME tenths of a second
\* while Direction B is in read()
SerialIdle ==
    /\ BridgeRunning /\ pcB = "read"
    /\ idleAt # << Len(serialRead) >>
    /\ idleAt' = << Len(serialRead) >>
    /\ IF IdleReadReturnsZero(tty)
       THEN pcB' = "done" /\ endB' = "timeout"
       ELSE UNCHANGED << pcB, endB >>
    /\ UNCHANGED << mainVars, pcMain, bridgeExit, tty, cfgRet, threadAVars,
                    bufB, serialDev, serialRead, tcpOut, stdio, stdout,
                    stderr, connVars, encVars, acceptCalls, waiting >>

Next ==
    \/ MainOpen
    \/ MainConfigure
    \/ MainListen
    \/ MainAccept
    \/ MainSpawn
    \/ MainJoinTcp
    \/ MainJoinSerial
    \/ FlushStdio
    \/ A_Recv
    \/ A_Write
    \/ B_Read
    \/ B_Write
    \/ EncStart
    \/ EncIter

Spec == Init /\ [][Next]_vars

\* The same under fair scheduling of the threads: a direction that holds a
\* chunk is runnable and its write call is eventually made.  Nothing is
\* assumed of the reads, which block for as long as their source is silent.
FairSpec == Spec /\ WF_vars(A_Write) /\ WF_vars(B_Write)

(***************************************************************************)
(* The bridge in its whole environment: the encoder, further clients that  *)
(* connect while the bridge runs, and silences of the serial line.         *)
(***************************************************************************)
InitEnv ==
    /\ baud = BAUD_RATE
    /\ verbose = FALSE
    /\ verboseE = FALSE
    /\ evDev \in { << >>, << Press30 >> }
    /\ evEof = FALSE
    /\ serialDev \in SerialStreams
    /\ tty0 = CookedLine
    /\ pcMain = "open"
    /\ InitCommon

NextEnv ==
    \/ Next
    \/ OtherClientConnect
    \/ SerialIdle

SpecEnv == InitEnv /\ [][NextEnv]_vars

(***************************************************************************)
(* The Line Configurator on its own: configure_serial_port applied to      *)
(* every supported rate and a sample of unsupported ones, on every prior   *)
(* line state.                                                             *)
(***************************************************************************)
InitCfg ==
    /\ baud \in SupportedBauds \cup UnsupportedBauds
    /\ verbose = FALSE
    /\ verboseE = FALSE
    /\ evDev = << >>
    /\ evEof = FALSE
    /\ serialDev = << >>
    /\ tty0 \in PriorLines
    /\ pcMain = "configure"
    /\ InitCommon

NextCfg == MainConfigure

SpecCfg == InitCfg /\ [][NextCfg]_vars

(***************************************************************************)
(* The Event Encoder on its own, on every event stream: the bridge has     *)
(* opened and configured the line, listens, and has not yet returned from  *)
(* accept.                                                                 *)
(***************************************************************************)
InitEnc ==
    /\ baud = BAUD_RATE
    /\ verbose = FALSE
    /\ verboseE \in BOOLEAN
    /\ tty0 = CookedLine
    /\ tty = configure_serial_port(CookedLine, BAUD_RATE, TRUE, TRUE).line
    /\ cfgRet = << 0 >>
    /\ pcMain = "accept"
    /\ bridgeExit = Running
    /\ pcA = "idle" /\ bufA = << >> /\ endA = "none"
    /\ pcB = "idle" /\ bufB = << >> /\ endB = "none"
    /\ stdio = << LogItem("listening") >> /\ stdout = << >> /\ stderr = << >>
    /\ serialOut = << >> /\ serialRead = << >> /\ tcpRead = << >>
    /\ tcpOut = << >>
    /\ serialDev = << >>
    /\ conn = "none" /\ tcpIn = << >> /\ peerClosed = FALSE
    /\ pcE = "start" /\ encExit = Running
    /\ evDev \in EventStreams
    /\ evEof = TRUE
    /\ evRead = << >>
    /\ tcpSent = << >> /\ encOut = << >> /\ encErr = << >>
    /\ eofs = 0
    /\ acceptCalls = 0 /\ waiting = 0 /\ idleAt = << >>

NextEnc ==
    \/ EncStart
    \/ EncIter

SpecEnc == InitEnc /\ [][NextEnc]_vars

(***************************************************************************)
(* What the claims speak of.                                               *)
(***************************************************************************)
\* the 2-byte record the wire format prescribes for a key press/release
WireRecord(e) == << IF e.value = 1 THEN 254 ELSE 255, e.code >>

\* a record the wire format has a message for
Encodable(e) ==
    e.type = EV_KEY /\ e.value \in { 0, 1 } /\ e.code \in 0..255

\* the concatenation of the records of the encodable events, in order
RECURSIVE WireOf(_)
WireOf(evs) ==
    IF evs = << >> THEN << >>
    ELSE (IF Encodable(Head(evs)) THEN WireRecord(Head(evs)) ELSE << >>)
           \o WireOf(Tail(evs))

Last(q) == q[Len(q)]

\* no read, send, recv or write has failed or come up short, and neither
\* program has ended on an error
NoIOError ==
    /\ eofs = 0
    /\ encErr = << >>
    /\ encExit \in { Running, 0 }
    /\ endA \in { "none", "eos" }
    /\ endB \in { "none", "eos" }
    /\ bridgeExit \in { Running, 0 }

\* C1: the bytes Direction A has written to the serial device are at every
\* moment a prefix of the bytes it has read from the connection, and the two
\* are equal once Direction A has ended by end-of-stream.
C1_DirectionARoundTrip ==
    /\ IsPrefix(serialOut, tcpRead)
    /\ endA = "eos" => serialOut = tcpRead

\* C1 witness: Direction A ended by end-of-stream after relaying two records
\* that recv delivered in more than two chunks or in two
C1_Witness ==
    /\ endA = "eos"
    /\ Len(tcpRead) = 4
    /\ serialOut = tcpRead

C3_UnsupportedBaudFails ==
    (cfgRet # << >> /\ baud \notin SupportedBauds) =>
        /\ cfgRet = << 0 - 1 >>
        /\ tty = tty0

\* C4: no connection is accepted and no direction is started unless the
\* line was configured successfully with a supported rate; with an
\* unsupported rate no byte is ever forwarded, and the process, once it has
\* terminated, has printed a diagnostic and has a non-zero status.
C4_NoForwardingUnlessConfigured ==
    /\ (conn = "accepted" \/ pcA # "idle" \/ pcB # "idle") =>
           (cfgRet = << 0 >> /\ baud \in SupportedBauds)
    /\ baud \notin SupportedBauds =>
           /\ serialOut = << >> /\ DataOf(stdout) = << >>
           /\ ~BridgeRunning => (bridgeExit # 0 /\ stderr # << >>)

C6_FailFastOnShortWrite ==
    /\ [] /\ (pcA # "write" /\ serialOut # tcpRead) =>
                 (pcA = "exit" /\ bridgeExit = 1)
          /\ (pcB # "write" /\ DataOf(stdout) # serialRead) =>
                 (pcB = "exit" /\ bridgeExit = 1)
          /\ (pcA = "exit" \/ pcB = "exit") =>
                 (bridgeExit = 1 /\ stderr # << >> /\ Last(stderr) = "write")
    /\ [][ ~BridgeRunning =>
             UNCHANGED << bridgeExit, pcA, pcB, serialOut, tcpRead, serialRead,
                          serialDev, stdout, tcpOut >> ]_vars

\* C6 witness: Direction A's write of a 2-byte chunk transferred one byte and
\* the process is gone while Direction B was still blocked in its read
C6_Witness ==
    /\ pcA = "exit"
    /\ Len(tcpRead) = Len(serialOut) + 1
    /\ pcB = "read"
    /\ bridgeExit = 1

\* C7: once the bridge has terminated after a read error in either
\* direction, its exit status is non-zero and the error was reported.
C7_ReadErrorIsFatal ==
    ((endA = "err" \/ endB = "err") /\ ~BridgeRunning) =>
        (bridgeExit # 0 /\ stderr # << >>)

\* a key record the encoder must not put on the wire
NotEncodable(e) ==
    e.type = EV_KEY /\ (e.value \notin { 0, 1 } \/ e.code >= 256)

\* C8: an iteration that reads a key record with value 2, with a value other
\* than 0 or 1, or with a code of 256 or more sends nothing: the TCP stream
\* is unchanged and the encoder is still in its loop.
C8_NothingSentForDroppedRecords ==
    [][ (evRead' # evRead /\ NotEncodable(Last(evRead'))) =>
          /\ tcpSent' = tcpSent
          /\ tcpIn' = tcpIn
          /\ pcE' = "loop"
          /\ encExit' = Running ]_vars

\* C8 witness: a press of key 256 and an auto-repeat of key 30 have been
\* read, nothing is on the wire and the encoder is in its loop
C8_Witness ==
    /\ evRead = << [ type |-> EV_KEY, code |-> 256, value |-> 1 ],
                   [ type |-> EV_KEY, code |-> 30, value |-> 2 ] >>
    /\ tcpSent = << >>
    /\ pcE = "loop"

\* C9 (where no send has failed): what the encoder has put on the connection
\* is the concatenation of the 2-byte records of the key press/release
\* records with code 0..255 it has read, one per record, in event order.
C9_WireFormat ==
    encErr = << >> => tcpSent = WireOf(evRead)

\* C10: once a send has come up short or failed, or a read of the event
\* device has failed, the encoder has terminated with a non-zero status.
C10_TransportErrorsAreFatal ==
    (encErr # << >>
       /\ Last(encErr) \in { "Failed to send data", "Error reading input event" })
        => encExit \notin { Running, 0 }

\* chunk log lines printed so far, flushed or not
ChunkLogs ==
    LET q == stdout \o stdio
    IN  Cardinality({ i \in 1..Len(q) : q[i] = LogItem("chunk") })

C12_SingleShotAccept ==
    /\ [] /\ acceptCalls <= 1
          /\ conn = "accepted" => acceptCalls = 1
          /\ pcMain \in { "spawn", "join_tcp", "join_serial", "closed" } =>
                 (acceptCalls = 1 /\ conn = "accepted")
    /\ [][ /\ waiting' >= waiting
           /\ acceptCalls >= 1 => conn' = conn ]_vars

\* C12 witness: the session has ended and the bridge has returned having
\* called accept once, while a second client has connected and waits
C12_Witness ==
    /\ pcMain = "closed" /\ bridgeExit = 0
    /\ acceptCalls = 1 /\ conn = "accepted"
    /\ waiting = 1

\* C13: distinct supported rates map to distinct speed constants, and for
\* each supported rate and every prior line state, when tcgetattr and
\* tcsetattr have succeeded, configure_serial_port has returned 0 and the
\* line has: input and output speed the rate's constant, 8 data bits, no
\* parity, one stop bit, no hardware flow control, receiver enabled, modem
\* control lines ignored, canonical mode, echo and signal characters off,
\* software flow control and input remapping off, output post-processing
\* off, VMIN = 1 and VTIME = 10.
C13_ConfigureSetsRawMode ==
    /\ \A b1, b2 \in SupportedBauds :
          /\ baudrate_to_speed_t(b1).speed \in ValidSpeeds \ { "B0" }
          /\ b1 # b2 =>
                 baudrate_to_speed_t(b1).speed # baudrate_to_speed_t(b2).speed
    /\ (/\ baud \in SupportedBauds
        /\ cfgRet # << >>
        /\ \A i \in 1..Len(stderr) :
              stderr[i] \notin { "Error from tcgetattr", "Error from tcsetattr" })
        => /\ cfgRet = << 0 >>
           /\ tty.ispeed = SpeedName[baud] /\ tty.ospeed = SpeedName[baud]
           /\ tty.csize = 8
           /\ tty.cflag \cap { "PARENB", "CSTOPB", "CRTSCTS" } = { }
           /\ { "CREAD", "CLOCAL" } \subseteq tty.cflag
           /\ tty.lflag \cap { "ICANON", "ECHO", "ECHOE", "ECHONL", "ISIG" } = { }
           /\ tty.iflag \cap { "IXON", "IXOFF", "IXANY", "IGNBRK", "BRKINT",
                                "PARMRK", "ISTRIP", "INLCR", "IGNCR", "ICRNL" }
                = { }
           /\ tty.oflag \cap { "OPOST", "ONLCR" } = { }
           /\ tty.vmin = 1 /\ tty.vtime = 10

\* C13 witness: 4000000 baud configured on a line that had 7 data bits,
\* parity, two stop bits, both flow controls and other speeds
C13_Witness ==
    /\ baud = 4000000
    /\ tty0 = OddLine
    /\ cfgRet = << 0 >>
    /\ tty.ospeed = "B4000000" /\ tty.ispeed = "B4000000"
    /\ tty.cflag = { "CREAD", "CLOCAL" }

\* C14: main has closed the connection, the listening socket and the serial
\* descriptor and returned 0 only when both directions have terminated,
\* in whichever order they did; main is past the first join only when
\* Direction A has terminated; and once main has closed the descriptors no
\* direction reads or writes anything.
C14_ShutdownOrdering ==
    /\ [] /\ (pcMain = "closed" \/ bridgeExit = 0) =>
                 (pcMain = "closed" /\ bridgeExit = 0
                    /\ pcA = "done" /\ pcB = "done")
          /\ pcMain = "join_serial" => pcA = "done"
    /\ [][ pcMain = "closed" =>
             UNCHANGED << threadAVars, threadBVars, stdout >> ]_vars

\* C14 witness: main has closed the descriptors and returned 0 after
\* Direction A relayed a message and ended at end of stream and Direction B
\* ended on a read error
C14_Witness ==
    /\ pcMain = "closed" /\ bridgeExit = 0
    /\ endA = "eos" /\ Len(serialOut) = 2
    /\ endB = "err"

\* C15: after one direction has terminated at end of stream the other is
\* not interrupted: while it is in its loop the process is running and
\* main has closed nothing; a chunk it holds can be written; it leaves
\* its read only with a chunk or with its own read's zero or negative
\* result; and a direction is terminated only by such a result of its own
\* read.  So while the remaining direction's read does not return, the
\* process does not terminate.
C15_NoCrossCancellation ==
    /\ [] /\ (endA = "eos" /\ pcB \in { "read", "write" }) =>
                 (BridgeRunning /\ pcMain # "closed")
          /\ (endB = "eos" /\ pcA \in { "recv", "write" }) =>
                 (BridgeRunning /\ pcMain # "closed")
          /\ (endA = "eos" /\ pcB = "write") => ENABLED B_Write
          /\ (endB = "eos" /\ pcA = "write") => ENABLED A_Write
          /\ pcA = "done" => endA \in { "eos", "err" }
          /\ pcB = "done" => endB \in { "eos", "err" }
    /\ [][ /\ (endA = "eos" /\ pcB = "read" /\ pcB' # "read") =>
                 \/ pcB' = "write" /\ bufB' # << >>
                 \/ pcB' = "done" /\ endB' \in { "eos", "err" }
           /\ (endB = "eos" /\ pcA = "recv" /\ pcA' # "recv") =>
                 \/ pcA' = "write" /\ bufA' # << >>
                 \/ pcA' = "done" /\ endA' \in { "eos", "err" } ]_vars

\* C15 witness: Direction A has ended at end of stream, main waits in the
\* second join, and Direction B holds a chunk it has read and can write it
C15_Witness ==
    /\ endA = "eos" /\ pcMain = "join_serial"
    /\ pcB = "write" /\ bufB # << >>
    /\ BridgeRunning
    /\ ENABLED B_Write

KeyRecordsRead ==
    Cardinality({ i \in 1..Len(evRead) :
                    evRead[i].type = EV_KEY /\ evRead[i].value \in { 0, 1 } })

\* C17: every 2-byte message the encoder has sent stands for a distinct key
\* press or release record completely read, so the bytes sent never exceed
\* two per such record; a read that returned no byte or less than a record
\* has sent nothing.
C17_MessagesMatchRecordsRead ==
    Len(tcpSent) <= 2 * KeyRecordsRead

====
